---- MODULE Spec2Model ----
(***************************************************************************)
(* Request orchestration layer of murmur: AudioProcessor (job registry,    *)
(* cancellation, progress events), CacheManager and RateLimiter.           *)
(*                                                                         *)
(* The specifications share the variables:                                 *)
(*   Spec        - AudioProcessor jobs, cancelJob, progress timers         *)
(*   CleanupSpec - AudioProcessor jobs, cancelJob, cleanup()               *)
(*   QuiesceSpec - jobs, then cleanup() with no job started after it       *)
(*   CallerSpec  - jobs and a caller awaiting cancelJob's result           *)
(*   RaceSpec    - processAudioFile jobs, cancelJob, progress timers and   *)
(*                 remote calls that settle after their race was lost      *)
(*   LiveSpec    - jobs and cancelJob under fair scheduling                *)
(*   CacheSpec   - CacheManager (cache-manager.ts), three keys             *)
(*   PairSpec    - CacheManager, two keys                                  *)
(*   RateSpec    - RateLimiter (security-utils.ts)                         *)
(*   ClientSpec  - OpenAIClient.transcribeAudio / formatText with their    *)
(*                 cache and the rate limiter                              *)
(* A step of an async method is the code between two suspension points     *)
(* (await of file I/O, of the logger's appendFile, of the remote call).    *)
(***************************************************************************)
EXTENDS Integers, Sequences, FiniteSets, TLC

\* ------------------------------------------------------------------ bounds
MaxTicks == 1      \* progress-simulation timer ticks per invocation

\* two invocations of processAudioFile / processAudioBlob, which may overlap
\* and may use the same jobId
Inv    == {1, 2}
JobIds == {"j1", "j2"}

MaxTime  == 2      \* the clock runs from 0 to MaxTime
MaxSize  == 2      \* largest maxSize a CacheManager is constructed with
MaxTtl == 1        \* largest ttl argument passed to set
MaxAccess == 2     \* accessCount is not pushed beyond this
MaxCallsArg == 2   \* largest maxCalls a RateLimiter is constructed with
MaxWindow == 2     \* largest windowMs a RateLimiter is constructed with

\* constructor defaults, scaled to the model's clock
DefaultMaxSize  == 2
DefaultTtl      == 1
DefaultMaxCalls == 2
DefaultWindowMs == 2

Calls == {1, 2}          \* calls of the client's methods in flight at once
SecondMs == 2            \* one second on the clock (1000 ms, scaled)
Null  == "null"          \* null / undefined
NoTtl == -1              \* the ttl argument is omitted
CKeys == {"", "a", "b"}  \* cache keys, the empty string among them
Data  == {"v1", "v2"}
TtlArgs == {NoTtl} \cup (0..MaxTtl)

\* --------------------------------------------------------------- messages
NotFoundMsg == "Audio file not found: p"
AbortMsg    == "Processing aborted by user"
UpstreamMsg == "upstream failure"
BlobMsg     == "Blob conversion failed"
CancelMsg   == "cancelled by user"
WriteMsg    == "ENOENT: no such file or directory"
StatMsg     == "ENOENT: stat"
HashMsg     == "Failed to generate file hash: e"
DefaultFailMsg == "Transcription failed"
ErrMsgs     == {NotFoundMsg, AbortMsg, UpstreamMsg, BlobMsg, WriteMsg, StatMsg,
                DefaultFailMsg}

\* error.message contains "aborted"
ContainsAborted(m) == m = AbortMsg

VARIABLES
  \* ---- AudioProcessor
  currentJobs,   \* Map<string, AbortController> in insertion order
  pc,            \* position of each invocation
  kind,          \* "file" (processAudioFile) or "blob" (processAudioBlob)
  jobId,         \* the invocation's jobId argument
  inputOk,       \* file: audioFilePath exists; blob: arrayBuffer() resolves
  aborted,       \* abortController.signal.aborted of the invocation
  err,           \* message of the error caught in processAudioFile
  result,        \* settlement of the invocation's promise
  remote,        \* openaiClient.transcribeAudio call of the invocation:
                 \* "none", "pending", "settled" after the race was lost, or
                 \* the way it settled the race
  timerOn,       \* progressInterval is set
  progress,      \* local `progress` of transcribeWithProgress
  ticks,         \* timer callbacks run so far
  events,        \* 'progress' events emitted, per jobId, in order
  tempDir,       \* options.tempDirectory exists
  tempFiles,     \* jobIds j for which temp-j.webm exists
  cuPc,          \* position of cleanup()
  cuPos,         \* entries of currentJobs the cleanup iterator has passed
  blobRet,       \* what processAudioBlob settles with after its finally
  cancelled      \* invocations whose token a cancelJob returning true signalled

orchVars == <<currentJobs, pc, kind, jobId, inputOk, aborted, err,
              result, remote, timerOn, progress, ticks, events, tempDir,
              tempFiles, cuPc, cuPos, blobRet, cancelled>>

VARIABLES
  \* ---- clock: Date.now()
  now,
  \* ---- CacheManager
  cache,         \* Map<string, CacheEntry<T>> in insertion order
  maxSize,       \* this.maxSize
  cacheOp,       \* the last call a user of CacheSpec or PairSpec made on the
                 \* CacheManager: [op, key, had, ret], where
                 \* had says whether the key was stored when it was made
                 \* (for cleanup: whether the sweep removed an entry)
  \* ---- RateLimiter
  calls,         \* this.calls
  maxCalls,      \* this.maxCalls
  windowMs,      \* this.windowMs
  granted,       \* times of the isAllowed() calls of RateSpec's user that
                 \* returned true
  rateOp         \* the last call RateSpec's user made: [op, allowed, wait]

cacheVars == <<cache, maxSize, cacheOp>>
rateVars  == <<calls, maxCalls, windowMs, granted, rateOp>>
libVars   == <<now, cacheVars, rateVars>>

VARIABLES
  \* ---- a caller of cancelJob
  cancelRet      \* what the promise of an awaited cancelJob(jobId) call resolved
                 \* with, until the caller has taken the value

callerVars == <<cancelRet>>

VARIABLES
  \* ---- OpenAIClient
  req,           \* the calls of transcribeAudio / formatText: position,
                 \* method, options argument, cache key, the way the call
                 \* was answered and the value it resolved with
  cachedCalls    \* the calls whose result has been stored in the cache

clientVars == <<req, cachedCalls>>

vars == <<orchVars, libVars, callerVars, clientVars>>

\* ------------------------------------------------- Map in insertion order
MapHas(m, k)    == \E n \in 1..Len(m) : m[n].key = k
MapIdx(m, k)    == CHOOSE n \in 1..Len(m) : m[n].key = k
MapGet(m, k)    == m[MapIdx(m, k)].val
MapSet(m, k, v) == IF MapHas(m, k)
                     THEN [m EXCEPT ![MapIdx(m, k)].val = v]
                     ELSE Append(m, [key |-> k, val |-> v])
MapDelete(m, k) == SelectSeq(m, LAMBDA e : e.key # k)
MapKeys(m)      == {m[n].key : n \in 1..Len(m)}

\* getCurrentJobs(): Array.from(this.currentJobs.keys())
getCurrentJobs == [n \in 1..Len(currentJobs) |-> currentJobs[n].key]
Registered(j)  == MapHas(currentJobs, j)

\* ---------------------------------------------------------------- results
Pending      == [state |-> "pending",  success |-> FALSE, error |-> ""]
Success      == [state |-> "resolved", success |-> TRUE,  error |-> ""]
Failure(m)   == [state |-> "resolved", success |-> FALSE, error |-> m]
Rejected(m)  == [state |-> "rejected", success |-> FALSE, error |-> m]

\* no awaited cancelJob call is outstanding
NoCall == [jobId |-> Null, ret |-> FALSE]

\* ---------------------------------------------------- OpenAIClient results
ApiResult(txt) == [success |-> TRUE,  text |-> txt, error |-> ""]
ApiError(m)    == [success |-> FALSE, text |-> "",  error |-> m]
NoResult       == [success |-> FALSE, text |-> "",  error |-> ""]

\* a call slot no call occupies; kind remembers the method last called
IdleReq(kd) == [pc |-> "idle", kind |-> kd, opts |-> <<>>, key |-> "",
                via |-> "none", ret |-> NoResult]

\* ----------------------------------------------------------------- events
Event(st, p, m, i) == [stage |-> st, progress |-> p, message |-> m, by |-> i]

\* emitProgress(jobId, progress): this.emit('progress', jobId, progress)
emitProgress(ev, j, e) == [ev EXCEPT ![j] = Append(@, e)]

Init ==
  /\ currentJobs = <<>>
  /\ pc = [i \in Inv |-> "idle"]
  /\ kind = [i \in Inv |-> "file"]
  /\ jobId = [i \in Inv |-> "j1"]
  /\ inputOk = [i \in Inv |-> TRUE]
  /\ aborted = [i \in Inv |-> FALSE]
  /\ err = [i \in Inv |-> ""]
  /\ result = [i \in Inv |-> Pending]
  /\ remote = [i \in Inv |-> "none"]
  /\ timerOn = [i \in Inv |-> FALSE]
  /\ progress = [i \in Inv |-> 0]
  /\ ticks = [i \in Inv |-> 0]
  /\ events = [j \in JobIds |-> <<>>]
  /\ tempDir = TRUE
  /\ tempFiles = {}
  /\ cuPc = "idle"
  /\ cuPos = 0
  /\ blobRet = [i \in Inv |-> Pending]
  /\ cancelled = {}
  /\ now = 0
  /\ cache = <<>>
  /\ maxSize = DefaultMaxSize
  /\ cacheOp = [op |-> "new", key |-> "", had |-> FALSE, ret |-> Null]
  /\ calls = <<>>
  /\ maxCalls = DefaultMaxCalls
  /\ windowMs = DefaultWindowMs
  /\ granted = <<>>
  /\ rateOp = [op |-> "new", allowed |-> FALSE, wait |-> 0]
  /\ cancelRet = NoCall
  /\ req = [c \in Calls |-> IdleReq("none")]
  /\ cachedCalls = {}

\* ------------------------------------------------------------ AudioProcessor
Min(a, b) == IF a < b THEN a ELSE b

\* Math.random() * 5 + 2 lies in [2, 7): the two ends of the integer range
TickIncs == {2, 6}

\* the path processAudioFile is given exists
FileThere(i) == IF kind[i] = "file" THEN inputOk[i] ELSE jobId[i] \in tempFiles

\* (variant) the whole registry is cleared
DeleteJobClears(j) ==
  /\ currentJobs' = <<>>
  /\ cuPos' = 0

\* this.currentJobs.delete(j), seen by a running cleanup() iterator
DeleteJob(j) ==
  /\ currentJobs' = MapDelete(currentJobs, j)
  /\ cuPos' = IF MapHas(currentJobs, j) /\ MapIdx(currentJobs, j) <= cuPos
                THEN cuPos - 1 ELSE cuPos

\* controller.abort() on the controllers in S: the 'abort' listener of a job
\* awaiting Promise.race rejects the race; its continuation clears the
\* interval, rethrows, and processAudioFile's catch awaits logger.error
AbortedAfter(S) == [i \in Inv |-> aborted[i] \/ i \in S]
PcAfterAbort(S) == [i \in Inv |-> IF i \in S /\ pc[i] = "race" THEN "logError" ELSE pc[i]]
ErrAfterAbort(S) == [i \in Inv |-> IF i \in S /\ pc[i] = "race" THEN AbortMsg ELSE err[i]]
\* (variant) the catch of transcribeWithProgress does not clear the interval
TimerLeaksOnAbort(S) == timerOn
TimerAfterAbort(S) == [i \in Inv |-> IF i \in S /\ pc[i] = "race" THEN FALSE ELSE timerOn[i]]

\* the invocations are interchangeable and so are the jobIds: invocation 1
\* starts first and uses "j1"
CanStart(i, j) ==
  /\ pc[i] = "idle"
  /\ \A k \in Inv : k < i => pc[k] # "idle"
  /\ (i = 1 => j = "j1")

\* processAudioFile lines 48-52: register, then await logger.info
Register(i, j) ==
  /\ currentJobs' = MapSet(currentJobs, j, i)
  /\ pc' = [pc EXCEPT ![i] = "logStart"]

processAudioFile(i, j, ex) ==
  /\ CanStart(i, j)
  /\ Register(i, j)
  /\ kind' = [kind EXCEPT ![i] = "file"]
  /\ jobId' = [jobId EXCEPT ![i] = j]
  /\ inputOk' = [inputOk EXCEPT ![i] = ex]
  /\ UNCHANGED <<aborted, err, result, remote, timerOn, progress, ticks,
                 events, tempDir, tempFiles, cuPc, cuPos, blobRet, cancelled,
                 libVars, callerVars, clientVars>>

\* lines 58-67: emit preparing 5, await fs.pathExists
LogStartDone(i) ==
  /\ pc[i] = "logStart"
  /\ events' = emitProgress(events, jobId[i], Event("preparing", 5, "", i))
  /\ pc' = [pc EXCEPT ![i] = "pathExists"]
  /\ UNCHANGED <<currentJobs, kind, jobId, inputOk, aborted, err,
                 result, remote, timerOn, progress, ticks, tempDir, tempFiles,
                 cuPc, cuPos, blobRet, cancelled,
                 libVars, callerVars, clientVars>>

\* (variant) the result of fs.pathExists is not tested
PathExistsUnchecked(i) ==
  /\ pc[i] = "pathExists"
  /\ pc' = [pc EXCEPT ![i] = "stat"]
  /\ UNCHANGED <<currentJobs, kind, jobId, inputOk, aborted, err, result,
                 remote, timerOn, progress, ticks, events, tempDir, tempFiles,
                 cuPc, cuPos, blobRet, cancelled,
                 libVars, callerVars, clientVars>>

\* lines 67-71: missing file throws into the catch (await logger.error),
\* otherwise await fs.stat
PathExistsDone(i) ==
  /\ pc[i] = "pathExists"
  /\ IF FileThere(i)
       THEN /\ pc' = [pc EXCEPT ![i] = "stat"]
            /\ err' = err
       ELSE /\ pc' = [pc EXCEPT ![i] = "logError"]
            /\ err' = [err EXCEPT ![i] = NotFoundMsg]
  /\ UNCHANGED <<currentJobs, kind, jobId, inputOk, aborted, result,
                 remote, timerOn, progress, ticks, events, tempDir, tempFiles,
                 cuPc, cuPos, blobRet, cancelled,
                 libVars, callerVars, clientVars>>

\* lines 71-101 and 147-176: emit preparing 10, abort check, emit
\* transcribing 15, start the interval and the remote call, await the race
StatDone(i) ==
  /\ pc[i] = "stat"
  /\ IF ~FileThere(i)
       THEN /\ pc' = [pc EXCEPT ![i] = "logError"]
            /\ err' = [err EXCEPT ![i] = StatMsg]
            /\ UNCHANGED <<events, remote, timerOn, progress>>
       ELSE IF aborted[i]
         THEN /\ events' = emitProgress(events, jobId[i], Event("preparing", 10, "", i))
              /\ pc' = [pc EXCEPT ![i] = "logError"]
              /\ err' = [err EXCEPT ![i] = AbortMsg]
              /\ UNCHANGED <<remote, timerOn, progress>>
         ELSE /\ events' = [events EXCEPT ![jobId[i]] =
                              @ \o <<Event("preparing", 10, "", i),
                                     Event("transcribing", 15, "", i)>>]
              /\ pc' = [pc EXCEPT ![i] = "race"]
              /\ remote' = [remote EXCEPT ![i] = "pending"]
              /\ timerOn' = [timerOn EXCEPT ![i] = TRUE]
              /\ progress' = [progress EXCEPT ![i] = 15]
              /\ err' = err
  /\ UNCHANGED <<currentJobs, kind, jobId, inputOk, aborted, result,
                 ticks, tempDir, tempFiles, cuPc, cuPos, blobRet, cancelled,
                 libVars, callerVars, clientVars>>

\* lines 155-165: one callback of the progress interval
TimerTick(i, inc) ==
  /\ timerOn[i]
  /\ ticks[i] < MaxTicks
  /\ ticks' = [ticks EXCEPT ![i] = @ + 1]
  /\ IF progress[i] < 75
       THEN /\ progress' = [progress EXCEPT ![i] = @ + inc]
            /\ events' = emitProgress(events, jobId[i],
                 Event("transcribing", Min(progress[i] + inc, 75), "", i))
       ELSE UNCHANGED <<progress, events>>
  /\ UNCHANGED <<currentJobs, pc, kind, jobId, inputOk, aborted, err,
                 result, remote, timerOn, tempDir, tempFiles, cuPc, cuPos,
                 blobRet, cancelled,
                 libVars, callerVars, clientVars>>

\* line 104: transcriptionResult.error || 'Transcription failed'
FailMsg(out) == IF out = "fail" THEN UpstreamMsg ELSE DefaultFailMsg

\* (variant) the text of a failed result is dropped
RemoteSettleDropsText(i, out) ==
  /\ pc[i] = "race"
  /\ remote[i] = "pending"
  /\ remote' = [remote EXCEPT ![i] = out]
  /\ timerOn' = [timerOn EXCEPT ![i] = FALSE]
  /\ CASE out = "ok" ->
            /\ events' = [events EXCEPT ![jobId[i]] =
                            @ \o <<Event("transcribing", 80, "", i),
                                   Event("complete", 100, "", i)>>]
            /\ pc' = [pc EXCEPT ![i] = "logDone"]
            /\ err' = err
       [] out \in {"fail", "failEmpty"} ->
            /\ events' = emitProgress(events, jobId[i], Event("transcribing", 80, "", i))
            /\ pc' = [pc EXCEPT ![i] = "logError"]
            /\ err' = [err EXCEPT ![i] = DefaultFailMsg]
       [] out = "throw" ->
            /\ events' = events
            /\ pc' = [pc EXCEPT ![i] = "logError"]
            /\ err' = [err EXCEPT ![i] = UpstreamMsg]
  /\ UNCHANGED <<currentJobs, kind, jobId, inputOk, aborted, result,
                 progress, ticks, tempDir, tempFiles, cuPc, cuPos, blobRet,
                 cancelled,
                 libVars, callerVars, clientVars>>

\* lines 169-192 and 103-124: the remote call settles first and wins the race.
\* out = "ok": resolves {success:true}; "fail": resolves {success:false,
\* error: m} with a text m; "failEmpty": resolves {success:false} with an
\* empty or no error text; "throw": rejects with an error of message m
RemoteSettle(i, out) ==
  /\ pc[i] = "race"
  /\ remote[i] = "pending"
  /\ remote' = [remote EXCEPT ![i] = out]
  /\ timerOn' = [timerOn EXCEPT ![i] = FALSE]
  /\ CASE out = "ok" ->
            /\ events' = [events EXCEPT ![jobId[i]] =
                            @ \o <<Event("transcribing", 80, "", i),
                                   Event("complete", 100, "", i)>>]
            /\ pc' = [pc EXCEPT ![i] = "logDone"]
            /\ err' = err
       [] out \in {"fail", "failEmpty"} ->
            /\ events' = emitProgress(events, jobId[i], Event("transcribing", 80, "", i))
            /\ pc' = [pc EXCEPT ![i] = "logError"]
            /\ err' = [err EXCEPT ![i] = FailMsg(out)]
       [] out = "throw" ->
            /\ events' = events
            /\ pc' = [pc EXCEPT ![i] = "logError"]
            /\ err' = [err EXCEPT ![i] = UpstreamMsg]
  /\ UNCHANGED <<currentJobs, kind, jobId, inputOk, aborted, result,
                 progress, ticks, tempDir, tempFiles, cuPc, cuPos, blobRet,
                 cancelled,
                 libVars, callerVars, clientVars>>

\* (variant) the continuation of the race runs for a late settlement too
LateSettleEmits(i, out) ==
  /\ pc[i] # "race"
  /\ remote[i] = "pending"
  /\ remote' = [remote EXCEPT ![i] = "settled"]
  /\ events' = emitProgress(events, jobId[i], Event("transcribing", 80, "", i))
  /\ UNCHANGED <<currentJobs, pc, kind, jobId, inputOk, aborted, err,
                 result, timerOn, progress, ticks, tempDir, tempFiles,
                 cuPc, cuPos, blobRet, cancelled,
                 libVars, callerVars, clientVars>>

\* the remote call of a job whose race the abort already won settles later
LateSettle(i, out) ==
  /\ pc[i] # "race"
  /\ remote[i] = "pending"
  /\ remote' = [remote EXCEPT ![i] = "settled"]
  /\ UNCHANGED <<currentJobs, pc, kind, jobId, inputOk, aborted, err,
                 result, timerOn, progress, ticks, events, tempDir, tempFiles,
                 cuPc, cuPos, blobRet, cancelled,
                 libVars, callerVars, clientVars>>

\* (variant) the finally block does not delete the jobId
ReturnKeepsJob(i, r) ==
  /\ UNCHANGED <<currentJobs, cuPos>>
  /\ IF kind[i] = "file"
       THEN /\ result' = [result EXCEPT ![i] = r]
            /\ pc' = [pc EXCEPT ![i] = "done"]
            /\ blobRet' = blobRet
       ELSE /\ blobRet' = [blobRet EXCEPT ![i] = r]
            /\ pc' = [pc EXCEPT ![i] = "blobExists"]
            /\ result' = result

\* processAudioFile returns r: finally deletes the jobId (line 140); a file
\* invocation settles, a blob invocation goes on to its own finally, which
\* awaits fs.pathExists(tempFilePath) (line 275)
Return(i, r) ==
  /\ DeleteJob(jobId[i])
  /\ IF kind[i] = "file"
       THEN /\ result' = [result EXCEPT ![i] = r]
            /\ pc' = [pc EXCEPT ![i] = "done"]
            /\ blobRet' = blobRet
       ELSE /\ blobRet' = [blobRet EXCEPT ![i] = r]
            /\ pc' = [pc EXCEPT ![i] = "blobExists"]
            /\ result' = result

\* (variant) the successful result is replaced by a failure on return
LogDoneLosesResult(i) ==
  /\ pc[i] = "logDone"
  /\ Return(i, Failure(DefaultFailMsg))
  /\ UNCHANGED <<kind, jobId, inputOk, aborted, err, remote, timerOn,
                 progress, ticks, events, tempDir, tempFiles, cuPc, cancelled,
                 libVars, callerVars, clientVars>>

\* lines 119-124, 139-141: logger.info done, return transcriptionResult
LogDoneDone(i) ==
  /\ pc[i] = "logDone"
  /\ Return(i, Success)
  /\ UNCHANGED <<kind, jobId, inputOk, aborted, err, remote, timerOn,
                 progress, ticks, events, tempDir, tempFiles, cuPc, cancelled,
                 libVars, callerVars, clientVars>>

\* (variant) the catch block returns without emitting the error event
LogErrorSilent(i) ==
  /\ pc[i] = "logError"
  /\ events' = events
  /\ Return(i, Failure(err[i]))
  /\ UNCHANGED <<kind, jobId, inputOk, aborted, err, remote, timerOn,
                 progress, ticks, tempDir, tempFiles, cuPc, cancelled,
                 libVars, callerVars, clientVars>>

\* lines 126-141: logger.error done, emit error, return {success:false}
LogErrorDone(i) ==
  /\ pc[i] = "logError"
  /\ events' = emitProgress(events, jobId[i], Event("error", 0, err[i], i))
  /\ Return(i, Failure(err[i]))
  /\ UNCHANGED <<kind, jobId, inputOk, aborted, err, remote, timerOn,
                 progress, ticks, tempDir, tempFiles, cuPc, cancelled,
                 libVars, callerVars, clientVars>>

\* (variant) cancelJob emits the cancellation event for an unknown jobId too
CancelUnknownEmits(j) ==
  IF Registered(j)
    THEN LET c == MapGet(currentJobs, j) IN
         /\ aborted' = AbortedAfter({c})
         /\ pc' = PcAfterAbort({c})
         /\ err' = ErrAfterAbort({c})
         /\ timerOn' = TimerAfterAbort({c})
         /\ DeleteJob(j)
         /\ events' = emitProgress(events, j, Event("error", 0, CancelMsg, 0))
         /\ cancelled' = cancelled \cup {c}
    ELSE /\ events' = emitProgress(events, j, Event("error", 0, CancelMsg, 0))
         /\ UNCHANGED <<aborted, pc, err, timerOn, currentJobs, cuPos, cancelled>>

\* cancelJob(jobId), lines 215-229: what the call does to the processor
Cancel(j) ==
  IF Registered(j)
    THEN LET c == MapGet(currentJobs, j) IN
         /\ aborted' = AbortedAfter({c})
         /\ pc' = PcAfterAbort({c})
         /\ err' = ErrAfterAbort({c})
         /\ timerOn' = TimerAfterAbort({c})
         /\ DeleteJob(j)
         /\ events' = emitProgress(events, j, Event("error", 0, CancelMsg, 0))
         /\ cancelled' = cancelled \cup {c}
    ELSE UNCHANGED <<aborted, pc, err, timerOn, currentJobs, cuPos, events,
                     cancelled>>

\* lines 228, 230: true if a controller was found for jobId, else false
cancelJobResult(j) == Registered(j)

\* cancelJob(jobId), lines 214-231, called without looking at its result.
\* The code after `await logger.info` only returns true, so the call is one
\* step.
cancelJob(j) ==
  /\ Cancel(j)
  /\ UNCHANGED <<kind, jobId, inputOk, result, remote, progress,
                 ticks, tempDir, tempFiles, cuPc, blobRet,
                 libVars, callerVars, clientVars>>

\* `await cancelJob(jobId)` by a caller that keeps the value it resolves with
AwaitCancelJob(j) ==
  /\ cancelRet = NoCall
  /\ Cancel(j)
  /\ cancelRet' = [jobId |-> j, ret |-> cancelJobResult(j)]
  /\ UNCHANGED <<kind, jobId, inputOk, result, remote, progress,
                 ticks, tempDir, tempFiles, cuPc, blobRet,
                 libVars, clientVars>>

\* the caller has taken the value and may call again
CancelJobReturned ==
  /\ cancelRet # NoCall
  /\ cancelRet' = NoCall
  /\ UNCHANGED <<orchVars, libVars, clientVars>>

\* (variant) the loop of cleanup() does not call controller.abort()
CleanupTurnNoAbort ==
  IF cuPos < Len(currentJobs)
    THEN /\ cuPos' = cuPos + 1
         /\ cuPc' = "log"
         /\ UNCHANGED <<currentJobs, aborted, pc, err, timerOn>>
    ELSE /\ currentJobs' = <<>>
         /\ cuPos' = 0
         /\ cuPc' = "pathExists"
         /\ UNCHANGED <<aborted, pc, err, timerOn>>

\* cleanup(), lines 301-321. One turn of `for (... of this.currentJobs)`:
\* the iterator yields the next entry, which is aborted before the await of
\* logger.info; when it is exhausted the map is cleared and fs.pathExists
\* awaited.
CleanupTurn ==
  IF cuPos < Len(currentJobs)
    THEN LET c == currentJobs[cuPos + 1].val IN
         /\ aborted' = AbortedAfter({c})
         /\ pc' = PcAfterAbort({c})
         /\ err' = ErrAfterAbort({c})
         /\ timerOn' = TimerAfterAbort({c})
         /\ cuPos' = cuPos + 1
         /\ cuPc' = "log"
         /\ UNCHANGED currentJobs
    ELSE /\ currentJobs' = <<>>
         /\ cuPos' = 0
         /\ cuPc' = "pathExists"
         /\ UNCHANGED <<aborted, pc, err, timerOn>>

cleanup ==
  /\ cuPc = "idle"
  /\ CleanupTurn
  /\ UNCHANGED <<kind, jobId, inputOk, result, remote, progress,
                 ticks, events, tempDir, tempFiles, blobRet, cancelled,
                 libVars, callerVars, clientVars>>

CleanupLogged ==
  /\ cuPc = "log"
  /\ CleanupTurn
  /\ UNCHANGED <<kind, jobId, inputOk, result, remote, progress,
                 ticks, events, tempDir, tempFiles, blobRet, cancelled,
                 libVars, callerVars, clientVars>>

\* line 312: fs.pathExists(tempDirectory) resolved
CleanupPathExists ==
  /\ cuPc = "pathExists"
  /\ cuPc' = IF tempDir THEN "remove" ELSE "done"
  /\ UNCHANGED <<currentJobs, pc, kind, jobId, inputOk, aborted, err,
                 result, remote, timerOn, progress, ticks, events, tempDir,
                 tempFiles, cuPos, blobRet, cancelled,
                 libVars, callerVars, clientVars>>

\* line 313: fs.remove(tempDirectory) removes the directory and its files
CleanupRemove ==
  /\ cuPc = "remove"
  /\ tempDir' = FALSE
  /\ tempFiles' = {}
  /\ cuPc' = "done"
  /\ UNCHANGED <<currentJobs, pc, kind, jobId, inputOk, aborted, err,
                 result, remote, timerOn, progress, ticks, events, cuPos,
                 blobRet, cancelled,
                 libVars, callerVars, clientVars>>

\* processAudioBlob, lines 257-266: await audioBlob.arrayBuffer()
processAudioBlob(i, j, ok) ==
  /\ CanStart(i, j)
  /\ pc' = [pc EXCEPT ![i] = "blobRead"]
  /\ kind' = [kind EXCEPT ![i] = "blob"]
  /\ jobId' = [jobId EXCEPT ![i] = j]
  /\ inputOk' = [inputOk EXCEPT ![i] = ok]
  /\ UNCHANGED <<currentJobs, aborted, err, result, remote, timerOn,
                 progress, ticks, events, tempDir, tempFiles, cuPc, cuPos,
                 blobRet, cancelled,
                 libVars, callerVars, clientVars>>

\* a throw inside processAudioBlob's try: there is no catch, the finally
\* awaits fs.pathExists(tempFilePath) and the error is rethrown after it
BlobThrow(i, m) ==
  /\ blobRet' = [blobRet EXCEPT ![i] = Rejected(m)]
  /\ pc' = [pc EXCEPT ![i] = "blobExists"]

\* line 266-267: arrayBuffer() settled; await fs.writeFile(tempFilePath)
BlobRead(i) ==
  /\ pc[i] = "blobRead"
  /\ IF inputOk[i]
       THEN /\ pc' = [pc EXCEPT ![i] = "blobWrite"]
            /\ blobRet' = blobRet
       ELSE BlobThrow(i, BlobMsg)
  /\ UNCHANGED <<currentJobs, kind, jobId, inputOk, aborted, err,
                 result, remote, timerOn, progress, ticks, events, tempDir,
                 tempFiles, cuPc, cuPos, cancelled,
                 libVars, callerVars, clientVars>>

\* lines 267-270: writeFile settled (it fails when the temp directory is
\* gone); processAudioFile(tempFilePath, options, jobId) is entered
BlobWrite(i) ==
  /\ pc[i] = "blobWrite"
  /\ IF tempDir
       THEN /\ tempFiles' = tempFiles \cup {jobId[i]}
            /\ Register(i, jobId[i])
            /\ blobRet' = blobRet
       ELSE /\ BlobThrow(i, WriteMsg)
            /\ UNCHANGED <<tempFiles, currentJobs>>
  /\ UNCHANGED <<kind, jobId, inputOk, aborted, err, result, remote,
                 timerOn, progress, ticks, events, tempDir, cuPc, cuPos,
                 cancelled,
                 libVars, callerVars, clientVars>>

\* lines 273-275: pathExists(tempFilePath) settled; without the file the
\* promise settles, with it fs.remove is awaited
BlobExists(i) ==
  /\ pc[i] = "blobExists"
  /\ IF jobId[i] \in tempFiles
       THEN /\ pc' = [pc EXCEPT ![i] = "blobRemove"]
            /\ result' = result
       ELSE /\ pc' = [pc EXCEPT ![i] = "done"]
            /\ result' = [result EXCEPT ![i] = blobRet[i]]
  /\ UNCHANGED <<currentJobs, kind, jobId, inputOk, aborted, err,
                 remote, timerOn, progress, ticks, events, tempDir, tempFiles,
                 cuPc, cuPos, blobRet, cancelled,
                 libVars, callerVars, clientVars>>

\* (variant) the finally block settles without removing the scratch file
BlobRemoveKeepsFile(i) ==
  /\ pc[i] = "blobRemove"
  /\ tempFiles' = tempFiles
  /\ pc' = [pc EXCEPT ![i] = "done"]
  /\ result' = [result EXCEPT ![i] = blobRet[i]]
  /\ UNCHANGED <<currentJobs, kind, jobId, inputOk, aborted, err,
                 remote, timerOn, progress, ticks, events, tempDir, cuPc, cuPos,
                 blobRet, cancelled,
                 libVars, callerVars, clientVars>>

\* lines 276-282: fs.remove(tempFilePath) settled; the promise settles
BlobRemove(i) ==
  /\ pc[i] = "blobRemove"
  /\ tempFiles' = tempFiles \ {jobId[i]}
  /\ pc' = [pc EXCEPT ![i] = "done"]
  /\ result' = [result EXCEPT ![i] = blobRet[i]]
  /\ UNCHANGED <<currentJobs, kind, jobId, inputOk, aborted, err,
                 remote, timerOn, progress, ticks, events, tempDir, cuPc, cuPos,
                 blobRet, cancelled,
                 libVars, callerVars, clientVars>>

Outcomes == {"ok", "fail", "failEmpty", "throw"}

\* a call of processAudioFile or processAudioBlob
JobStart ==
  \/ \E i \in Inv, j \in JobIds, ex \in BOOLEAN : processAudioFile(i, j, ex)
  \/ \E i \in Inv, j \in JobIds, ok \in BOOLEAN : processAudioBlob(i, j, ok)

\* the continuations of the started jobs
JobSteps ==
  \/ \E i \in Inv : LogStartDone(i)
  \/ \E i \in Inv : PathExistsDone(i)
  \/ \E i \in Inv : StatDone(i)
  \/ \E i \in Inv, out \in Outcomes : RemoteSettle(i, out)
  \/ \E i \in Inv : LogDoneDone(i)
  \/ \E i \in Inv : LogErrorDone(i)
  \/ \E i \in Inv : BlobRead(i)
  \/ \E i \in Inv : BlobWrite(i)
  \/ \E i \in Inv : BlobExists(i)
  \/ \E i \in Inv : BlobRemove(i)

JobNext ==
  \/ JobStart
  \/ JobSteps
  \/ \E j \in JobIds : cancelJob(j)

\* jobs, cancellation, the progress timers and discarded remote calls
Next ==
  \/ JobNext
  \/ \E i \in Inv, inc \in TickIncs : TimerTick(i, inc)
  \/ \E i \in Inv, out \in Outcomes : LateSettle(i, out)

Spec == Init /\ [][Next]_vars

\* jobs, cancellation and cleanup()
CleanupNext ==
  \/ JobNext
  \/ cleanup
  \/ CleanupLogged
  \/ CleanupPathExists
  \/ CleanupRemove

CleanupSpec == Init /\ [][CleanupNext]_vars

\* jobs and cleanup(), no job being started once cleanup() has been called
QuiesceNext ==
  \/ \E i \in Inv, j \in JobIds, ex \in BOOLEAN :
       cuPc = "idle" /\ processAudioFile(i, j, ex)
  \/ \E i \in Inv, j \in JobIds, ok \in BOOLEAN :
       cuPc = "idle" /\ processAudioBlob(i, j, ok)
  \/ JobSteps
  \/ cleanup
  \/ CleanupLogged
  \/ CleanupPathExists
  \/ CleanupRemove

QuiesceSpec == Init /\ [][QuiesceNext]_vars

\* jobs and a caller that awaits its cancelJob calls
CallerNext ==
  \/ JobStart
  \/ JobSteps
  \/ \E j \in JobIds : AwaitCancelJob(j)
  \/ CancelJobReturned

CallerSpec == Init /\ [][CallerNext]_vars

\* the continuations of processAudioFile and transcribeWithProgress
FileSteps(i) ==
  \/ LogStartDone(i)
  \/ PathExistsDone(i)
  \/ StatDone(i)
  \/ \E out \in Outcomes : RemoteSettle(i, out)
  \/ LogDoneDone(i)
  \/ LogErrorDone(i)

\* processAudioFile jobs, cancelJob, the progress timers and the remote
\* calls whose race was lost
RaceNext ==
  \/ \E i \in Inv, j \in JobIds, ex \in BOOLEAN : processAudioFile(i, j, ex)
  \/ \E i \in Inv : FileSteps(i)
  \/ \E j \in JobIds : cancelJob(j)
  \/ \E i \in Inv, inc \in TickIncs : TimerTick(i, inc)
  \/ \E i \in Inv, out \in Outcomes : LateSettle(i, out)

RaceSpec == Init /\ [][RaceNext]_vars

\* -------------------------------------------------------------- the clock
Tick ==
  /\ now < MaxTime
  /\ now' = now + 1
  /\ cacheOp' = [op |-> "tick", key |-> "", had |-> FALSE, ret |-> Null]
  /\ rateOp' = [op |-> "tick", allowed |-> FALSE, wait |-> 0]
  /\ UNCHANGED <<orchVars, callerVars, clientVars, cache, maxSize, calls, maxCalls, windowMs, granted>>

\* ------------------------------------------------------------ CacheManager
Entry(d, ts, ttl, ac, la) ==
  [data |-> d, timestamp |-> ts, ttl |-> ttl, accessCount |-> ac, lastAccessed |-> la]

\* Date.now() > entry.timestamp + entry.ttl
Expired(e, t) == t > e.timestamp + e.ttl

\* ttl || this.defaultTtl: an omitted ttl and a ttl of 0 are both falsy
TtlOrDefault(ttl) == IF ttl = NoTtl \/ ttl = 0 THEN DefaultTtl ELSE ttl

\* if (oldestKey): the empty string is falsy
Truthy(k) == k # ""

\* (variant) get does not check expiry
cacheGetNoExpiry(c, k, t) ==
  IF ~MapHas(c, k) THEN [cache |-> c, ret |-> Null]
  ELSE LET e == MapGet(c, k) IN
       [cache |-> MapSet(c, k, [e EXCEPT !.accessCount = @ + 1,
                                         !.lastAccessed = t]),
        ret |-> e.data]

\* (variant) a hit does not increment accessCount
cacheGetNoCount(c, k, t) ==
  IF ~MapHas(c, k) THEN [cache |-> c, ret |-> Null]
  ELSE LET e == MapGet(c, k) IN
       IF Expired(e, t) THEN [cache |-> MapDelete(c, k), ret |-> Null]
       ELSE [cache |-> MapSet(c, k, [e EXCEPT !.lastAccessed = t]),
             ret |-> e.data]

\* get(key), lines 59-77
cacheGet(c, k, t) ==
  IF ~MapHas(c, k) THEN [cache |-> c, ret |-> Null]
  ELSE LET e == MapGet(c, k) IN
       IF Expired(e, t) THEN [cache |-> MapDelete(c, k), ret |-> Null]
       ELSE [cache |-> MapSet(c, k, [e EXCEPT !.accessCount = @ + 1,
                                             !.lastAccessed = t]),
             ret |-> e.data]

\* evictOldest(), lines 183-199: the first entry, in insertion order, with
\* the smallest lastAccessed is deleted, if its key is truthy
OldestIdx(c) ==
  CHOOSE n \in 1..Len(c) :
    /\ \A m \in 1..Len(c) : c[n].val.lastAccessed <= c[m].val.lastAccessed
    /\ \A m \in 1..(n - 1) : c[m].val.lastAccessed > c[n].val.lastAccessed

evictOldest(c) ==
  IF Len(c) = 0 THEN c
  ELSE LET oldestKey == c[OldestIdx(c)].key IN
       IF Truthy(oldestKey) THEN MapDelete(c, oldestKey) ELSE c

\* (variant) an update in place keeps the old data
cacheSetKeepsData(c, ms, k, d, ttl, t) ==
  IF MapHas(c, k)
    THEN LET e == MapGet(c, k) IN
         MapSet(c, k, Entry(e.data, t, TtlOrDefault(ttl), e.accessCount + 1, t))
    ELSE LET c1 == IF Len(c) >= ms THEN evictOldest(c) ELSE c IN
         MapSet(c1, k, Entry(d, t, TtlOrDefault(ttl), 1, t))

\* (variant) the capacity check comes before the test for an existing key
cacheSetEvictsFirst(c, ms, k, d, ttl, t) ==
  LET c1 == IF Len(c) >= ms THEN evictOldest(c) ELSE c IN
  IF MapHas(c1, k)
    THEN LET e == MapGet(c1, k) IN
         MapSet(c1, k, Entry(d, t, TtlOrDefault(ttl), e.accessCount + 1, t))
    ELSE MapSet(c1, k, Entry(d, t, TtlOrDefault(ttl), 1, t))

\* set(key, data, ttl), lines 82-108
cacheSet(c, ms, k, d, ttl, t) ==
  IF MapHas(c, k)
    THEN LET e == MapGet(c, k) IN
         MapSet(c, k, Entry(d, t, TtlOrDefault(ttl), e.accessCount + 1, t))
    ELSE LET c1 == IF Len(c) >= ms THEN evictOldest(c) ELSE c IN
         MapSet(c1, k, Entry(d, t, TtlOrDefault(ttl), 1, t))

\* (variant) has looks the entry up without touching it
cacheHasPeek(c, k, t) ==
  [cache |-> c, ret |-> MapHas(c, k) /\ ~Expired(MapGet(c, k), t)]

\* has(key), lines 113-115
cacheHas(c, k, t) ==
  LET g == cacheGet(c, k, t) IN [cache |-> g.cache, ret |-> g.ret # Null]

\* (variant) the sweep also removes an entry whose ttl ends at this instant
cacheCleanupEager(c, t) ==
  SelectSeq(c, LAMBDA x : t < x.val.timestamp + x.val.ttl)

\* cleanup(), lines 167-178
cacheCleanup(c, t) == SelectSeq(c, LAMBDA x : ~Expired(x.val, t))

\* accessCount stays within the model's range
CanAccess(k) == MapHas(cache, k) => MapGet(cache, k).accessCount < MaxAccess

\* new CacheManager({maxSize}): options.maxSize || 100
NewCacheManager(ms) ==
  /\ cache' = <<>>
  /\ maxSize' = IF ms = 0 THEN DefaultMaxSize ELSE ms
  /\ cacheOp' = [op |-> "new", key |-> "", had |-> FALSE, ret |-> Null]
  /\ UNCHANGED <<orchVars, callerVars, clientVars, now, rateVars>>

Get(k) ==
  /\ CanAccess(k)
  /\ LET g == cacheGet(cache, k, now) IN
       /\ cache' = g.cache
       /\ cacheOp' = [op |-> "get", key |-> k,
                   had |-> MapHas(cache, k), ret |-> g.ret]
  /\ UNCHANGED <<orchVars, callerVars, clientVars, now, maxSize, rateVars>>

Has(k) ==
  /\ CanAccess(k)
  /\ LET h == cacheHas(cache, k, now) IN
       /\ cache' = h.cache
       /\ cacheOp' = [op |-> "has", key |-> k,
                   had |-> MapHas(cache, k), ret |-> IF h.ret THEN "true" ELSE "false"]
  /\ UNCHANGED <<orchVars, callerVars, clientVars, now, maxSize, rateVars>>

Set(k, d, ttl) ==
  /\ CanAccess(k)
  /\ cache' = cacheSet(cache, maxSize, k, d, ttl, now)
  /\ cacheOp' = [op |-> "set", key |-> k,
                   had |-> MapHas(cache, k), ret |-> Null]
  /\ UNCHANGED <<orchVars, callerVars, clientVars, now, maxSize, rateVars>>

\* delete(key), lines 120-122
Delete(k) ==
  /\ cache' = MapDelete(cache, k)
  /\ cacheOp' = [op |-> "delete", key |-> k,
                   had |-> MapHas(cache, k), ret |-> IF MapHas(cache, k) THEN "true" ELSE "false"]
  /\ UNCHANGED <<orchVars, callerVars, clientVars, now, maxSize, rateVars>>

\* clear(), lines 127-129
Clear ==
  /\ cache' = <<>>
  /\ cacheOp' = [op |-> "clear", key |-> "", had |-> FALSE, ret |-> Null]
  /\ UNCHANGED <<orchVars, callerVars, clientVars, now, maxSize, rateVars>>

CacheCleanup ==
  /\ cache' = cacheCleanup(cache, now)
  /\ cacheOp' = [op |-> "cleanup", key |-> "",
                   had |-> cacheCleanup(cache, now) # cache, ret |-> Null]
  /\ UNCHANGED <<orchVars, callerVars, clientVars, now, maxSize, rateVars>>

CacheNext ==
  \/ Tick
  \/ \E ms \in 0..MaxSize : NewCacheManager(ms)
  \/ \E k \in CKeys : Get(k)
  \/ \E k \in CKeys : Has(k)
  \/ \E k \in CKeys, d \in Data, ttl \in TtlArgs : Set(k, d, ttl)
  \/ \E k \in CKeys : Delete(k)
  \/ Clear
  \/ CacheCleanup

CacheSpec == Init /\ [][CacheNext]_vars

\* the same CacheManager used with two keys only
PairKeys == {"", "a"}

PairNext ==
  \/ Tick
  \/ \E ms \in 0..MaxSize : NewCacheManager(ms)
  \/ \E k \in PairKeys : Get(k)
  \/ \E k \in PairKeys : Has(k)
  \/ \E k \in PairKeys, d \in Data, ttl \in TtlArgs : Set(k, d, ttl)
  \/ \E k \in PairKeys : Delete(k)
  \/ Clear
  \/ CacheCleanup

PairSpec == Init /\ [][PairNext]_vars

\* ------------------------------------------------------------- RateLimiter
Max(a, b) == IF a > b THEN a ELSE b

\* Math.min(...this.calls) of a non-empty list
MinOf(cl) == CHOOSE x \in {cl[n] : n \in 1..Len(cl)} :
               \A n \in 1..Len(cl) : x <= cl[n]

\* (variant) the filter keeps a call made exactly windowMs ago
InWindowInclusive(ts, w, t) == t - ts <= w

\* the filter of line 431: now - timestamp < this.windowMs
InWindow(ts, w, t) == t - ts < w

\* (variant) the list is not pruned before the count is compared
isAllowedNoPrune(cl, mc, w, t) ==
  IF Len(cl) < mc
    THEN [calls |-> Append(cl, t), ret |-> TRUE]
    ELSE [calls |-> cl, ret |-> FALSE]

\* (variant) a rejected call is recorded as well
isAllowedRecordsRejected(cl, mc, w, t) ==
  LET kept == SelectSeq(cl, LAMBDA ts : InWindow(ts, w, t)) IN
  [calls |-> Append(kept, t), ret |-> Len(kept) < mc]

\* isAllowed(), lines 427-440
isAllowed(cl, mc, w, t) ==
  LET kept == SelectSeq(cl, LAMBDA ts : InWindow(ts, w, t)) IN
  IF Len(kept) < mc
    THEN [calls |-> Append(kept, t), ret |-> TRUE]
    ELSE [calls |-> kept, ret |-> FALSE]

\* (variant) the wait ends one clock unit before the oldest call leaves the
\* window
getTimeUntilResetEarly(cl, w, t) ==
  IF Len(cl) = 0 THEN 0 ELSE Max(0, MinOf(cl) + w - t - 1)

\* getTimeUntilReset(), lines 445-453
getTimeUntilReset(cl, w, t) ==
  IF Len(cl) = 0 THEN 0 ELSE Max(0, MinOf(cl) + w - t)

\* new RateLimiter(maxCalls, windowMs), lines 419-422
NewRateLimiter(mc, w) ==
  /\ calls' = <<>>
  /\ maxCalls' = mc
  /\ windowMs' = w
  /\ granted' = <<>>
  /\ rateOp' = [op |-> "new", allowed |-> FALSE, wait |-> 0]
  /\ UNCHANGED <<orchVars, callerVars, clientVars, now, cacheVars>>

IsAllowed ==
  /\ LET r == isAllowed(calls, maxCalls, windowMs, now) IN
       /\ calls' = r.calls
       /\ granted' = IF r.ret THEN Append(granted, now) ELSE granted
       /\ rateOp' = [op |-> "isAllowed", allowed |-> r.ret, wait |-> 0]
  /\ UNCHANGED <<orchVars, callerVars, clientVars, now, cacheVars, maxCalls, windowMs>>

GetTimeUntilReset ==
  /\ rateOp' = [op |-> "getTimeUntilReset", allowed |-> FALSE,
                wait |-> getTimeUntilReset(calls, windowMs, now)]
  /\ UNCHANGED <<orchVars, callerVars, clientVars, now, cacheVars, calls, maxCalls, windowMs, granted>>

RateNext ==
  \/ Tick
  \/ \E mc \in 1..MaxCallsArg, w \in 1..MaxWindow : NewRateLimiter(mc, w)
  \/ IsAllowed
  \/ GetTimeUntilReset

RateSpec == Init /\ [][RateNext]_vars

\* ------------------------------------------------------------ OpenAIClient
\* An options argument is an object literal: its fields in the order in
\* which they were written. A value of Null is undefined.
Field(n, v) == [name |-> n, value |-> v]

\* the options passed to transcribeAudio and to formatText
TrOptions == { <<Field("language", "en"), Field("temperature", "0")>>,
               <<Field("temperature", "0"), Field("language", "en")>> }
FmtOptions == { <<>>,
                <<Field("prompt", "p1")>>,
                <<Field("prompt", "p2")>> }

\* the audio file's bytes and the text to format
FileHash == "f"
Text == "t"

\* options.n
Prop(o, n) ==
  IF \E i \in 1..Len(o) : o[i].name = n
    THEN o[CHOOSE i \in 1..Len(o) : o[i].name = n].value
    ELSE Null

\* v || d: undefined, '' and 0 are falsy
Falsy(v) == v \in {Null, "", "0"}
OrElse(v, d) == IF Falsy(v) THEN d ELSE v

\* JSON.stringify of an object: the fields in written order, a field whose
\* value is undefined left out
RECURSIVE members(_)
members(fs) ==
  IF fs = <<>> THEN ""
  ELSE fs[1].name \o ":" \o fs[1].value
         \o (IF Len(fs) = 1 THEN "" ELSE ",") \o members(Tail(fs))

stringify(o) == "{" \o members(SelectSeq(o, LAMBDA f : f.value # Null)) \o "}"

\* crypto.createHash('sha256').update(s).digest('hex'): no two inputs of
\* the model share a digest
sha256(s) == "#" \o s

\* generateContentKey(content, options), cache-manager.ts lines 51-54
generateContentKey(content, options) ==
  sha256("{content:" \o content \o ",options:" \o stringify(options) \o "}")

\* transcribeAudio lines 325-327
transcriptionKey(o) == FileHash \o "_" \o generateContentKey("", o)

\* the object literal of formatText lines 415-420
formattingOptions(o) ==
  << Field("model", OrElse(Prop(o, "model"), "gpt-3.5-turbo")),
     Field("temperature", OrElse(Prop(o, "temperature"), "0.7")),
     Field("max_tokens", OrElse(Prop(o, "max_tokens"), "2000")),
     Field("hasCustomPrompt", IF Falsy(Prop(o, "prompt")) THEN "false" ELSE "true") >>

\* formatText lines 415-420
formattingKey(t, o) == generateContentKey(t, formattingOptions(o))

\* the form data of lines 347-363
TranscriptionRequest(o) ==
  "whisper-1"
    \o (IF Falsy(Prop(o, "language")) THEN "" ELSE "," \o Prop(o, "language"))
    \o "," \o OrElse(Prop(o, "response_format"), "json")
    \o (IF Prop(o, "temperature") = Null THEN "" ELSE "," \o Prop(o, "temperature"))

\* the request body of lines 439-482
CompletionRequest(t, o) ==
  OrElse(Prop(o, "model"), "gpt-3.5-turbo")
    \o "," \o OrElse(Prop(o, "prompt"), "default prompt " \o t)
    \o "," \o OrElse(Prop(o, "temperature"), "0.7")
    \o "," \o OrElse(Prop(o, "max_tokens"), "2000")

\* response.data.text / choices[0].message.content: the remote end answers
\* the request it was sent
Answer(kd, o) ==
  "re:" \o (IF kd = "transcribe" THEN TranscriptionRequest(o)
                                 ELSE CompletionRequest(Text, o))

\* (variant) the wait is rounded down
RateLimitMsgFloor(wait) ==
  "Rate limit exceeded. Please wait " \o ToString(wait \div SecondMs) \o " seconds."

\* Math.ceil(waitTime / 1000)
Ceil(a, b) == (a + b - 1) \div b

\* lines 342 and 435
RateLimitMsg(wait) ==
  "Rate limit exceeded. Please wait " \o ToString(Ceil(wait, SecondMs)) \o " seconds."

\* (variant) the rate limiter is consulted before the cache
admitRateFirst(cch, cl, mc, w, k, t) ==
  LET a == isAllowed(cl, mc, w, t)
      g == cacheGet(cch, k, t) IN
  IF ~a.ret
    THEN [via |-> "limit", cache |-> cch, calls |-> a.calls,
          ret |-> ApiError(RateLimitMsg(getTimeUntilReset(a.calls, w, t)))]
    ELSE IF g.ret # Null
      THEN [via |-> "cache", cache |-> g.cache, calls |-> a.calls,
            ret |-> ApiResult(g.ret)]
      ELSE [via |-> "remote", cache |-> g.cache, calls |-> a.calls,
            ret |-> NoResult]

\* lines 329-345 and 422-438: the cache is read first; on a miss the rate
\* limiter decides whether the remote call is made
admit(cch, cl, mc, w, k, t) ==
  LET g == cacheGet(cch, k, t) IN
  IF g.ret # Null
    THEN [via |-> "cache", cache |-> g.cache, calls |-> cl,
          ret |-> ApiResult(g.ret)]
    ELSE LET a == isAllowed(cl, mc, w, t) IN
         IF ~a.ret
           THEN [via |-> "limit", cache |-> g.cache, calls |-> a.calls,
                 ret |-> ApiError(RateLimitMsg(getTimeUntilReset(a.calls, w, t)))]
           ELSE [via |-> "remote", cache |-> g.cache, calls |-> a.calls,
                 ret |-> NoResult]

\* the synchronous part of a call from the cache lookup on: it resolves from
\* the cache, resolves with the rate-limit error, or awaits client.post
Lookup(c, kd, o, k) ==
  /\ CanAccess(k)
  /\ LET a == admit(cache, calls, maxCalls, windowMs, k, now) IN
       /\ cache' = a.cache
       /\ calls' = a.calls
       /\ req' = [req EXCEPT ![c] =
                    [pc |-> IF a.via = "remote" THEN "post" ELSE "done",
                     kind |-> kd, opts |-> o, key |-> k,
                     via |-> a.via, ret |-> a.ret]]

\* transcriptionCache and formattingCache are two CacheManager instances;
\* a behaviour calls one of the two methods, and cache is the instance that
\* method uses. The call slots are interchangeable: slot 1 is used first.
CanCall(c, kd) ==
  /\ req[c].pc = "idle"
  /\ c # 1 => req[1].pc # "idle"
  /\ \A d \in Calls : req[d].kind \in {"none", kd}

\* transcribeAudio(audioFilePath, options), line 320: await fs.pathExists
transcribeAudio(c, o) ==
  /\ CanCall(c, "transcribe")
  /\ req' = [req EXCEPT ![c] = [pc |-> "pathExists", kind |-> "transcribe",
                                opts |-> o, key |-> "", via |-> "none",
                                ret |-> NoResult]]
  /\ UNCHANGED <<orchVars, callerVars, libVars, cachedCalls>>

\* lines 320-325: a missing file throws into the catch of line 387, which
\* resolves {success:false}; otherwise await generateFileKey
PathExistsSettled(c, ex) ==
  /\ req[c].pc = "pathExists"
  /\ req' = [req EXCEPT ![c] =
               IF ex THEN [@ EXCEPT !.pc = "fileKey"]
                     ELSE [@ EXCEPT !.pc = "done", !.via = "error",
                                    !.ret = ApiError(NotFoundMsg)]]
  /\ UNCHANGED <<orchVars, callerVars, libVars, cachedCalls>>

\* lines 325-345: generateFileKey settled (it rejects when the file cannot
\* be read); the key is built and the cache and the rate limiter are asked
FileKeySettled(c, ok) ==
  /\ req[c].pc = "fileKey"
  /\ IF ok
       THEN Lookup(c, "transcribe", req[c].opts, transcriptionKey(req[c].opts))
       ELSE /\ req' = [req EXCEPT ![c] = [@ EXCEPT !.pc = "done", !.via = "error",
                                                   !.ret = ApiError(HashMsg)]]
            /\ UNCHANGED <<cache, calls>>
  /\ UNCHANGED <<orchVars, callerVars, now, maxSize, cacheOp, maxCalls, windowMs,
                 granted, rateOp, cachedCalls>>

\* formatText(text, options), lines 412-438
formatText(c, o) ==
  /\ CanCall(c, "format")
  /\ Lookup(c, "format", o, formattingKey(Text, o))
  /\ UNCHANGED <<orchVars, callerVars, now, maxSize, cacheOp, maxCalls, windowMs,
                 granted, rateOp, cachedCalls>>

\* (variant) the catch stores the failure under the key
PostSettledCachesError(c, out) ==
  /\ req[c].pc = "post"
  /\ CanAccess(req[c].key)
  /\ LET d == IF out = "ok" THEN Answer(req[c].kind, req[c].opts) ELSE UpstreamMsg IN
       /\ cache' = cacheSet(cache, maxSize, req[c].key, d, NoTtl, now)
       /\ req' = [req EXCEPT ![c] = [@ EXCEPT !.pc = "done",
                    !.ret = IF out = "ok" THEN ApiResult(d) ELSE ApiError(d)]]
  /\ cachedCalls' = IF out = "ok"
                      THEN cachedCalls \cup {[kind |-> req[c].kind, opts |-> req[c].opts,
                                               key |-> req[c].key]}
                      ELSE cachedCalls
  /\ UNCHANGED <<orchVars, callerVars, now, maxSize, cacheOp, rateVars>>

\* lines 365-406 and 474-518: client.post settled. "ok": the result is
\* stored under the key and returned; "error": the catch resolves
\* {success:false, error}
PostSettled(c, out) ==
  /\ req[c].pc = "post"
  /\ IF out = "ok"
       THEN LET d == Answer(req[c].kind, req[c].opts) IN
            /\ CanAccess(req[c].key)
            /\ cache' = cacheSet(cache, maxSize, req[c].key, d, NoTtl, now)
            /\ cachedCalls' = cachedCalls \cup
                                {[kind |-> req[c].kind, opts |-> req[c].opts,
                                  key |-> req[c].key]}
            /\ req' = [req EXCEPT ![c] = [@ EXCEPT !.pc = "done",
                                                   !.ret = ApiResult(d)]]
       ELSE /\ req' = [req EXCEPT ![c] = [@ EXCEPT !.pc = "done",
                                                   !.ret = ApiError(UpstreamMsg)]]
            /\ UNCHANGED <<cache, cachedCalls>>
  /\ UNCHANGED <<orchVars, callerVars, now, maxSize, cacheOp, rateVars>>

\* the caller has taken the value the call resolved with
TakeResult(c) ==
  /\ req[c].pc = "done"
  /\ req' = [req EXCEPT ![c] = IdleReq(req[c].kind)]
  /\ UNCHANGED <<orchVars, callerVars, libVars, cachedCalls>>

PostOutcomes == {"ok", "error"}

ClientNext ==
  \/ Tick
  \/ \E c \in Calls, o \in TrOptions : transcribeAudio(c, o)
  \/ \E c \in Calls, ex \in BOOLEAN : PathExistsSettled(c, ex)
  \/ \E c \in Calls, ok \in BOOLEAN : FileKeySettled(c, ok)
  \/ \E c \in Calls, o \in FmtOptions : formatText(c, o)
  \/ \E c \in Calls, out \in PostOutcomes : PostSettled(c, out)
  \/ \E c \in Calls : TakeResult(c)

ClientSpec == Init /\ [][ClientNext]_vars

\* ---------------------------------------------------------------- fairness
\* The event loop runs every continuation whose awaited operation has
\* settled, and every file operation, logger write and remote call settles.
Fairness ==
  \A i \in Inv :
    /\ WF_vars(LogStartDone(i))
    /\ WF_vars(PathExistsDone(i))
    /\ WF_vars(StatDone(i))
    /\ WF_vars(\E out \in Outcomes : RemoteSettle(i, out))
    /\ WF_vars(LogDoneDone(i))
    /\ WF_vars(LogErrorDone(i))
    /\ WF_vars(BlobRead(i))
    /\ WF_vars(BlobWrite(i))
    /\ WF_vars(BlobExists(i))
    /\ WF_vars(BlobRemove(i))

\* jobs and cancellation under fair scheduling
LiveSpec == Init /\ [][JobNext]_vars /\ Fairness

\* =================================================================== claims

\* invocation i is inside processAudioFile: registered, promise not settled
InFile(i) == pc[i] \in {"logStart", "pathExists", "stat", "race", "logDone", "logError"}

\* the promise processAudioFile returned for invocation i
ProcessResult(i) == IF kind[i] = "file" THEN result[i] ELSE blobRet[i]

Terminal(st) == st \in {"complete", "error"}

\* some event of stage st emitted by invocation i itself
Emitted(i, stages) ==
  \E n \in 1..Len(events[jobId[i]]) :
    /\ events[jobId[i]][n].by = i
    /\ events[jobId[i]][n].stage \in stages

\* C1: on every exit path of processAudioFile (success, input not found,
\* upstream failure, thrown exception, cancellation) the jobId is out of the
\* registry in the state in which the promise settles, and a registered
\* jobId always belongs to an invocation that has not settled yet.
C1_NoDangling ==
  /\ [](\A j \in JobIds : Registered(j) =>
          (InFile(MapGet(currentJobs, j)) /\ jobId[MapGet(currentJobs, j)] = j))
  /\ [][\A i \in Inv :
          (InFile(i) /\ ~InFile(i)') => ~MapHas(currentJobs', jobId[i])]_vars

\* a file job has settled with success while the other job is still
\* registered and racing
C1_Witness ==
  \E i, k \in Inv :
    /\ pc[i] = "done" /\ kind[i] = "file" /\ result[i].success
    /\ pc[k] = "race" /\ Registered(jobId[k])
    /\ ~Registered(jobId[i])

\* C2: whenever cancelJob returned true for a job, the job's processAudioFile
\* result has success=false with an error containing "aborted", and an
\* error-stage event for the jobId is emitted.
C2_CancelYieldsAborted ==
  \A i \in cancelled :
    /\ \E n \in 1..Len(events[jobId[i]]) : events[jobId[i]][n].stage = "error"
    /\ ProcessResult(i).state # "pending" =>
         /\ ProcessResult(i).state = "resolved"
         /\ ~ProcessResult(i).success
         /\ ContainsAborted(ProcessResult(i).error)

\* C3: while a processAudioFile invocation is unresolved and has not been
\* deregistered by a cancellation of it, getCurrentJobs() contains its
\* jobId, also when another invocation uses the same jobId.
C3_RegisteredWhileUnresolved ==
  \A i \in Inv :
    (InFile(i) /\ ~aborted[i]) =>
      \E n \in 1..Len(getCurrentJobs) : getCurrentJobs[n] = jobId[i]

\* C4: the progress events of one jobId are emitted in stage order:
\* preparing, then transcribing, then the terminal event.
Rank(st) == CASE st = "preparing" -> 1
              [] st = "transcribing" -> 2
              [] OTHER -> 3

C4_StageOrder ==
  \A j \in JobIds : \A m, n \in 1..Len(events[j]) :
    m < n => Rank(events[j][m].stage) <= Rank(events[j][n].stage)

\* C5: every started processAudioFile invocation eventually emits a
\* 'complete' or 'error' event for its jobId and its promise resolves.
C5_Done(i) ==
  /\ ~InFile(i)
  /\ ProcessResult(i).state = "resolved"
  /\ Emitted(i, {"complete", "error"})

C5_ReachesTerminal == \A i \in Inv : InFile(i) ~> C5_Done(i)

\* a cancelled job has resolved and emitted its own terminal event
C5_Witness ==
  \E i \in Inv : i \in cancelled /\ pc[i] = "done" /\ C5_Done(i)

\* C9: processAudioBlob never rejects: a failure to read the blob or to
\* write the scratch file resolves with {success:false, error}.
C9_BlobNeverRejects ==
  \A i \in Inv : kind[i] = "blob" => result[i].state # "rejected"

\* C10: a step of cleanup() that reaches a registered job
CleanupVisits == cuPc' = "log" /\ cuPos' = cuPos + 1
\* the step of cleanup() that ends the loop
CleanupClears == cuPc \in {"idle", "log"} /\ cuPc' = "pathExists"

\* C10 (as stated): cleanup() does to every registered job what cancelJob
\* does: signals its token, emits the error-stage cancellation event for
\* its jobId, and deregisters it.
C10_CleanupAsCancelJob ==
  [][/\ CleanupVisits =>
          LET e == currentJobs[cuPos + 1] IN
            /\ aborted'[e.val]
            /\ events'[e.key] = Append(events[e.key], Event("error", 0, CancelMsg, 0))
     /\ CleanupClears => currentJobs' = <<>>]_vars

\* C10 (amended): cleanup() signals the token of every job its loop reaches
\* and leaves the registry empty, but emits no progress event.
C10_CleanupSignalsAndClears ==
  [][/\ CleanupVisits => (aborted'[currentJobs[cuPos + 1].val] /\ events' = events)
     /\ CleanupClears => (currentJobs' = <<>> /\ events' = events)]_vars

\* cleanup() has finished its loop after signalling a job that no cancelJob
\* had signalled, and the registry is empty
C10_Witness ==
  /\ cuPc = "pathExists"
  /\ currentJobs = <<>>
  /\ \E i \in Inv : aborted[i] /\ i \notin cancelled /\ InFile(i)

\* C11: with no job started after cleanup() was called, once cleanup() has
\* returned getCurrentJobs() is empty and no scratch file is left, and every
\* job that was in flight when it was called settles without success (a
\* rejected promise counts as such).
C11_CleanupSettlesAll ==
  /\ [](cuPc = "done" => (getCurrentJobs = <<>> /\ tempFiles = {}))
  /\ [][\A i \in Inv :
         (cuPc # "idle" /\ result[i].state = "pending" /\ result'[i].state # "pending")
           => ~result'[i].success]_vars

\* an awaited cancelJob call is made in this step
CancelCalled == cancelRet = NoCall /\ cancelRet' # NoCall

\* C12: cancelJob(jobId) on a jobId that is not registered returns false,
\* signals no token, emits no event and leaves the registry unchanged; a
\* cancelJob that returns true deregisters the jobId and signals a job that
\* no earlier cancelJob had signalled, so a second cancelJob for the same job
\* returns false.
C12_UnknownJobIsNoOp ==
  [][CancelCalled =>
       LET j == cancelRet'.jobId IN
       /\ ~Registered(j) =>
            /\ ~cancelRet'.ret
            /\ aborted' = aborted
            /\ events' = events
            /\ currentJobs' = currentJobs
       /\ cancelRet'.ret =>
            /\ Registered(j)
            /\ MapGet(currentJobs, j) \notin cancelled
            /\ ~MapHas(currentJobs', j)]_vars

\* a second cancelJob for a job that was cancelled and has not settled yet
\* has returned false
C12_Witness ==
  /\ cancelRet # NoCall
  /\ ~cancelRet.ret
  /\ \E i \in cancelled : jobId[i] = cancelRet.jobId /\ InFile(i)

\* invocation i of processAudioBlob settles in this step
BlobSettles(i) ==
  kind[i] = "blob" /\ result[i].state = "pending" /\ result'[i].state # "pending"

C6_SizeBound == Len(cache) <= maxSize

\* C7: a get of an entry with now > timestamp + ttl returns null and removes
\* the entry, and an absent key becomes present only by a set of that key.
C7_ExpiredIsAbsent ==
  [][\A k \in CKeys :
       /\ (/\ cacheOp'.op = "get" /\ cacheOp'.key = k
           /\ MapHas(cache, k) /\ MapGet(cache, k).timestamp + MapGet(cache, k).ttl < now)
            => (cacheOp'.ret = Null /\ ~MapHas(cache', k))
       /\ (~MapHas(cache, k) /\ MapHas(cache', k))
            => (cacheOp'.op = "set" /\ cacheOp'.key = k)]_vars

\* a get has just found its key stored but expired, and removed it
C7_Witness ==
  /\ cacheOp.op = "get" /\ cacheOp.had /\ cacheOp.ret = Null
  /\ ~MapHas(cache, cacheOp.key)

\* a set(k, ...) of a key that is not stored, made with size == maxSize
InsertWhenFull(k) ==
  /\ cacheOp'.op = "set" /\ cacheOp'.key = k
  /\ ~MapHas(cache, k)
  /\ Len(cache) = maxSize

LastAccessed(k) == MapGet(cache, k).lastAccessed

\* C14: set(k, v) with k absent and size == maxSize removes exactly one
\* entry, one with the smallest lastAccessed, and inserts k: afterwards
\* size == maxSize and get(k) returns the stored value.
C14_LruEviction ==
  [][\A k \in CKeys : InsertWhenFull(k) =>
       /\ Len(cache') = maxSize
       /\ \E x \in MapKeys(cache) :
            /\ \A y \in MapKeys(cache) : LastAccessed(x) <= LastAccessed(y)
            /\ MapKeys(cache') = (MapKeys(cache) \ {x}) \cup {k}
       /\ MapHas(cache', k)
       /\ cacheGet(cache', k, now).ret = MapGet(cache', k).data]_vars

\* C15: when a new key is inserted with size == maxSize, an entry whose
\* lastAccessed is strictly later than that of another entry stays, and an
\* entry accessed less recently is evicted instead.
C15_RecencyProtection ==
  [][\A k \in CKeys : InsertWhenFull(k) =>
       \A x \in MapKeys(cache) :
         (\E y \in MapKeys(cache) : LastAccessed(y) < LastAccessed(x)) =>
           /\ MapHas(cache', x)
           /\ \E y \in MapKeys(cache) :
                LastAccessed(y) < LastAccessed(x) /\ ~MapHas(cache', y)]_vars

\* C16: an entry stored with set(k, v, 0) is absent for a get(k) at any
\* later instant.
C16_ZeroTtlExpires ==
  \A k \in CKeys, d \in Data, t \in (now + 1)..(now + MaxTime) :
    cacheGet(cacheSet(cache, maxSize, k, d, 0, now), k, t).ret = Null

\* C17: set(k, v) followed at the same instant by get(k) returns v, for a
\* key stored or not, a cache full or not, and any ttl argument or none; and
\* a get made right after a set of its key returns the data that is stored.
C17_RoundTrip ==
  /\ [](\A k \in CKeys, d \in Data, ttl \in TtlArgs :
          cacheGet(cacheSet(cache, maxSize, k, d, ttl, now), k, now).ret = d)
  /\ [][\A k \in CKeys :
          (/\ cacheOp.op = "set" /\ cacheOp.key = k
           /\ cacheOp'.op = "get" /\ cacheOp'.key = k)
            => (MapHas(cache, k) /\ cacheOp'.ret = MapGet(cache, k).data)]_vars

\* a get has returned the data of an entry that was set at this instant,
\* after the clock had advanced, in a cache that is full
C17_Witness ==
  /\ cacheOp.op = "get" /\ cacheOp.ret # Null
  /\ Len(cache) = maxSize /\ Len(cache) = 2
  /\ LET e == MapGet(cache, cacheOp.key) IN
       e.timestamp = now /\ e.accessCount = 2 /\ now > 0

\* the last call was a get or has of k, or a set of k
Accesses(k) == cacheOp'.key = k /\ cacheOp'.op \in {"get", "has", "set"}

\* C18: a newly inserted entry has accessCount 1; a get that hits (has
\* is such a get) and a set of a stored key add exactly 1 to the entry's
\* accessCount; no other call, a get that misses among them, changes the
\* accessCount of an entry that stays; every stored accessCount is >= 1.
C18_AccessCounting ==
  /\ [](\A n \in 1..Len(cache) : cache[n].val.accessCount >= 1)
  /\ [][\A k \in CKeys :
          /\ (~MapHas(cache, k) /\ MapHas(cache', k))
               => MapGet(cache', k).accessCount = 1
          /\ (MapHas(cache, k) /\ MapHas(cache', k))
               => MapGet(cache', k).accessCount =
                    MapGet(cache, k).accessCount + (IF Accesses(k) THEN 1 ELSE 0)]_vars

\* a get at a later instant has hit an entry and raised its count, while
\* another entry keeps its count of 1
C18_Witness ==
  /\ cacheOp.op = "get" /\ cacheOp.ret # Null
  /\ MapGet(cache, cacheOp.key).accessCount >= 2
  /\ MapGet(cache, cacheOp.key).timestamp < now
  /\ \E n \in 1..Len(cache) : cache[n].val.accessCount = 1

\* C19: set(k, v) on a stored key rewrites that entry only: the keys, their
\* order and every other entry are unchanged, also with size >= maxSize.
C19_UpdateInPlace ==
  [][\A k \in CKeys :
       (cacheOp'.op = "set" /\ cacheOp'.key = k /\ MapHas(cache, k)) =>
         /\ Len(cache') = Len(cache)
         /\ \A n \in 1..Len(cache) :
              /\ cache'[n].key = cache[n].key
              /\ cache[n].key # k => cache'[n] = cache[n]
         /\ LET e == MapGet(cache', k) IN
              /\ e.timestamp = now /\ e.lastAccessed = now
              /\ e.accessCount = MapGet(cache, k).accessCount + 1]_vars

\* a stored key has been set again in a full cache that holds another entry
C19_Witness ==
  /\ cacheOp.op = "set" /\ cacheOp.had
  /\ Len(cache) = maxSize /\ Len(cache) = 2
  /\ MapGet(cache, cacheOp.key).accessCount = 2

\* C8: at most maxCalls calls are granted in any trailing interval
\* (t - windowMs, t], the recorded list never holds more than maxCalls
\* timestamps, and isAllowed() returns true exactly when fewer than maxCalls
\* earlier grants lie less than windowMs back.
GrantedIn(lo, hi) == {n \in 1..Len(granted) : lo < granted[n] /\ granted[n] <= hi}

C8_RateBound ==
  /\ \A t \in 0..now : Cardinality(GrantedIn(t - windowMs, t)) <= maxCalls
  /\ Len(calls) <= maxCalls
  /\ rateOp.op = "isAllowed" =>
       (rateOp.allowed <=>
          Cardinality(GrantedIn(now - windowMs, now))
            - (IF rateOp.allowed THEN 1 ELSE 0) < maxCalls)

\* a call was granted after the window of maxCalls earlier grants had passed
C8_Witness ==
  /\ rateOp.op = "isAllowed" /\ rateOp.allowed
  /\ Len(granted) > maxCalls
  /\ Len(calls) = 1

\* C20: for maxCalls >= 1, when isAllowed() returns false at time t, the value
\* d that getTimeUntilReset() returns at t satisfies 0 < d <= windowMs, and
\* an isAllowed() call at t + d, with no call in between, returns true.
C20_RetryAfterReset ==
  /\ [](maxCalls >= 1 =>
          LET r == isAllowed(calls, maxCalls, windowMs, now) IN
          ~r.ret =>
            LET d == getTimeUntilReset(r.calls, windowMs, now) IN
            /\ d > 0 /\ d <= windowMs
            /\ isAllowed(r.calls, maxCalls, windowMs, now + d).ret)
  /\ [][(/\ rateOp.op = "isAllowed" /\ ~rateOp.allowed
          /\ rateOp'.op = "getTimeUntilReset")
           => /\ rateOp'.wait > 0 /\ rateOp'.wait <= windowMs
              /\ isAllowed(calls, maxCalls, windowMs, now + rateOp'.wait).ret]_vars

\* getTimeUntilReset() has been called with the budget used up, some time
\* after the oldest recorded call, and returned a wait shorter than the
\* window
C20_Witness ==
  /\ rateOp.op = "getTimeUntilReset"
  /\ Len(calls) = maxCalls
  /\ rateOp.wait > 0 /\ rateOp.wait < windowMs
  /\ ~isAllowed(calls, maxCalls, windowMs, now).ret

\* C21 (as stated): in every reachable state the recorded-call list holds no
\* timestamp that is windowMs or more old, also after time has passed with
\* no call or with calls of getTimeUntilReset() only.
C21_NoStaleTimestamps ==
  \A n \in 1..Len(calls) : now - calls[n] < windowMs

\* C21 (amended): the list is pruned by isAllowed() only. In the state an
\* isAllowed() call leaves, no recorded timestamp is windowMs or more old;
\* a step that is not an isAllowed() call (time passing, getTimeUntilReset())
\* leaves the list as it is, and getTimeUntilReset() answers 0 while the
\* oldest recorded timestamp is out of the window.
C21_PrunedByIsAllowed ==
  /\ [](rateOp.op = "isAllowed" =>
          \A n \in 1..Len(calls) : now - calls[n] < windowMs)
  /\ [][rateOp'.op \in {"tick", "getTimeUntilReset"} => calls' = calls]_vars
  /\ []((rateOp.op = "getTimeUntilReset" /\ Len(calls) > 0
           /\ now - MinOf(calls) >= windowMs) => rateOp.wait = 0)

\* an isAllowed() call has dropped a recorded timestamp that had left the
\* window and kept a younger one
C21_Witness ==
  /\ rateOp.op = "isAllowed"
  /\ Len(calls) = 2
  /\ Len(granted) > Len(calls)
  /\ calls[1] < now

\* C22: an isAllowed() call that returns false leaves the recorded list as
\* it was, so the time getTimeUntilReset() reports is the same after the
\* rejected call as before it.
C22_RejectRecordsNothing ==
  /\ [](LET r == isAllowed(calls, maxCalls, windowMs, now) IN
          ~r.ret =>
            /\ r.calls = calls
            /\ getTimeUntilReset(r.calls, windowMs, now)
                 = getTimeUntilReset(calls, windowMs, now))
  /\ [][(rateOp'.op = "isAllowed" /\ ~rateOp'.allowed) =>
          /\ calls' = calls
          /\ granted' = granted]_vars

\* two isAllowed() calls in a row have been rejected at a time later than
\* the newest recorded call
C22_Witness ==
  /\ rateOp.op = "isAllowed" /\ ~rateOp.allowed
  /\ Len(calls) = maxCalls
  /\ \A n \in 1..Len(calls) : calls[n] < now

\* C27: has(k) is get(k) != absent in result and in side effects: in every
\* cache state and at every clock value has(k) returns true exactly when
\* get(k) would return a value, and the cache it leaves is the cache get(k)
\* would leave: an expired entry is removed, a live entry has its
\* accessCount raised by one and its lastAccessed set to now.
C27_HasIsGet ==
  /\ [](\A k \in CKeys :
          LET h == cacheHas(cache, k, now)
              g == cacheGet(cache, k, now) IN
          /\ h.ret <=> (g.ret # Null)
          /\ h.cache = g.cache)
  /\ [][\A k \in CKeys :
          (cacheOp'.op = "has" /\ cacheOp'.key = k) =>
            LET g == cacheGet(cache, k, now) IN
            /\ cacheOp'.ret = "true" <=> (g.ret # Null)
            /\ cache' = g.cache
            /\ (MapHas(cache, k) /\ Expired(MapGet(cache, k), now))
                 => ~MapHas(cache', k)
            /\ (MapHas(cache, k) /\ ~Expired(MapGet(cache, k), now))
                 => /\ MapGet(cache', k).accessCount
                        = MapGet(cache, k).accessCount + 1
                    /\ MapGet(cache', k).lastAccessed = now]_vars

\* has(k) has returned true for an entry stored at an earlier instant and
\* has counted as an access of it
C27_Witness ==
  /\ cacheOp.op = "has" /\ cacheOp.ret = "true"
  /\ MapGet(cache, cacheOp.key).accessCount = 2
  /\ MapGet(cache, cacheOp.key).lastAccessed = now
  /\ MapGet(cache, cacheOp.key).timestamp < now

\* C28: cleanup() removes exactly the entries with now > timestamp + ttl;
\* every other entry stays, in its place among the remaining ones, with its
\* data, timestamp, ttl, accessCount and lastAccessed unchanged.
C28_CleanupExact ==
  [][cacheOp'.op = "cleanup" =>
       /\ \A k \in CKeys :
            MapHas(cache', k) <=>
              (MapHas(cache, k) /\ ~(now > MapGet(cache, k).timestamp
                                          + MapGet(cache, k).ttl))
       /\ \A k \in CKeys : MapHas(cache', k) => MapGet(cache', k) = MapGet(cache, k)
       /\ \A m, n \in 1..Len(cache') :
            m < n => MapIdx(cache, cache'[m].key) < MapIdx(cache, cache'[n].key)]_vars

\* a sweep has removed an expired entry and kept an entry whose ttl ends at
\* this very instant
C28_Witness ==
  /\ cacheOp.op = "cleanup" /\ cacheOp.had
  /\ \E n \in 1..Len(cache) :
       /\ cache[n].val.timestamp + cache[n].val.ttl = now
       /\ cache[n].val.timestamp < now

\* processAudioFile was called for invocation i with a path that does not exist
MissingInput(i) == pc[i] # "idle" /\ kind[i] = "file" /\ ~inputOk[i]

\* invocation i itself emitted an error-stage event with progress 0 whose
\* message is built from m
EmittedError(i, m) ==
  \E n \in 1..Len(events[jobId[i]]) :
    /\ events[jobId[i]][n].by = i
    /\ events[jobId[i]][n].stage = "error"
    /\ events[jobId[i]][n].progress = 0
    /\ events[jobId[i]][n].message = m

\* C29: a processAudioFile call on a path that does not exist never starts
\* the remote call and emits no 'transcribing' event of its own; when it
\* settles it resolves with {success:false, error: 'Audio file not found:
\* ...'} and has emitted an error-stage event with progress 0 for its jobId.
C29_InputNotFound ==
  \A i \in Inv : MissingInput(i) =>
    /\ remote[i] = "none"
    /\ ~Emitted(i, {"transcribing"})
    /\ result[i].state # "pending" =>
         /\ result[i] = Failure(NotFoundMsg)
         /\ EmittedError(i, NotFoundMsg)

\* a call on a missing path has settled while another call with the same
\* jobId has emitted its 'transcribing' events
C29_Witness ==
  \E i, k \in Inv :
    /\ MissingInput(i) /\ pc[i] = "done"
    /\ k # i /\ jobId[k] = jobId[i]
    /\ Emitted(k, {"transcribing"})

\* the remote call of invocation i settled the race with a failure
UpstreamFailed(i) == remote[i] \in {"fail", "failEmpty", "throw"}

\* the text m of that failure
UpstreamText(i) == IF remote[i] = "failEmpty" THEN "" ELSE UpstreamMsg

\* C30 (as stated): when the remote call resolves with {success:false,
\* error: m} or rejects with an error of message m, the job resolves with
\* {success:false, error: m}, an error-stage event with progress 0 whose
\* message contains m has been emitted for the jobId, and no promise rejects.
C30_UpstreamFailure ==
  \A i \in Inv : UpstreamFailed(i) =>
    /\ result[i].state # "rejected"
    /\ ProcessResult(i).state # "pending" =>
         /\ ProcessResult(i) = Failure(UpstreamText(i))
         /\ UpstreamText(i) # "" => EmittedError(i, UpstreamText(i))
         /\ \E m \in ErrMsgs : EmittedError(i, m)
    /\ result[i].state # "pending" => result[i] = Failure(UpstreamText(i))

\* C30 (amended): as stated when the text m is not empty; when the remote
\* call resolves with {success:false} and an empty or missing error text,
\* the job's error and its error event carry 'Transcription failed'.
C30_UpstreamFailureText ==
  \A i \in Inv : UpstreamFailed(i) =>
    LET m == IF UpstreamText(i) = "" THEN DefaultFailMsg ELSE UpstreamText(i) IN
    /\ result[i].state # "rejected"
    /\ ProcessResult(i).state # "pending" =>
         /\ ProcessResult(i) = Failure(m)
         /\ EmittedError(i, m)
    /\ result[i].state # "pending" => result[i] = Failure(m)

\* one job has settled after its remote call resolved with a failure text,
\* another after its remote call resolved with a failure without a text
C30_Witness ==
  \E i, k \in Inv :
    /\ remote[i] = "fail" /\ pc[i] = "done"
    /\ remote[k] = "failEmpty" /\ pc[k] = "done"
    /\ result[i] = Failure(UpstreamMsg) /\ result[k] = Failure(DefaultFailMsg)

\* call c reads the cache in this step: transcribeAudio when generateFileKey
\* has resolved, formatText when it is called
Looks(c) ==
  \/ req[c].pc = "fileKey" /\ req'[c].pc # "fileKey" /\ req'[c].via # "error"
  \/ req[c].pc = "idle" /\ req'[c].pc # "idle" /\ req'[c].kind = "format"

\* the key has an entry that has not expired
Live(k) == MapHas(cache, k) /\ ~Expired(MapGet(cache, k), now)

\* maxCalls recorded calls are less than windowMs old
Exhausted ==
  Cardinality({n \in 1..Len(calls) : now - calls[n] < windowMs}) >= maxCalls

\* C23: a transcribeAudio or formatText call that finds a live entry under
\* its cache key resolves with the cached result without making the remote
\* call and leaves the rate limiter's recorded calls unchanged, whether or
\* not the rate budget is used up.
C23_HitBypassesRateLimit ==
  /\ [][\A c \in Calls :
          (Looks(c) /\ Live(req'[c].key)) =>
            /\ req'[c].pc = "done"
            /\ req'[c].via = "cache"
            /\ req'[c].ret = ApiResult(MapGet(cache, req'[c].key).data)
            /\ calls' = calls]_vars
  /\ [](\A c \in Calls :
          req[c].via = "cache" => (req[c].pc = "done" /\ req[c].ret.success))

\* a call has been answered from the cache at an instant at which the rate
\* budget was used up by earlier calls
C23_Witness ==
  \E c \in Calls :
    /\ req[c].pc = "done" /\ req[c].via = "cache"
    /\ Exhausted
    /\ \A n \in 1..Len(calls) : calls[n] < now
    /\ MapGet(cache, req[c].key).lastAccessed = now
    /\ MapGet(cache, req[c].key).timestamp < now

\* the options have the same fields with the same values
SameValue(o1, o2) ==
  {<<o1[n].name, o1[n].value>> : n \in 1..Len(o1)}
    = {<<o2[n].name, o2[n].value>> : n \in 1..Len(o2)}

\* C24: a call is answered from the cache only if a call of the same method
\* for the same input with options of the same value has been cached before:
\* a call whose options differ in some field from those of every call cached
\* so far is not served from the cache.
C24_OptionSensitive ==
  [][\A c \in Calls :
       (Looks(c) /\ req'[c].via = "cache") =>
         \E r \in cachedCalls :
           r.kind = req'[c].kind /\ SameValue(r.opts, req'[c].opts)]_vars

\* the options object a call of method kd with options o hands to
\* generateContentKey
KeyOptions(kd, o) == IF kd = "format" THEN formattingOptions(o) ELSE o

\* C25: generateContentKey depends on the value of (content, options) only:
\* for one content, the key made for a call equals the key made for a
\* cached call exactly when the two options objects have the same fields
\* and values, in whatever order the fields were written.
C25_KeyIsFunctionOfValue ==
  \A c \in Calls : \A r \in cachedCalls :
    (req[c].kind = r.kind /\ req[c].key # "") =>
      (SameValue(KeyOptions(r.kind, req[c].opts), KeyOptions(r.kind, r.opts))
         <=> req[c].key = r.key)

\* C26: a call that finds no live entry under its key while the rate budget
\* is used up makes no remote call, stores nothing in the cache and resolves
\* with {success:false} and the error 'Rate limit exceeded. Please wait N
\* seconds.', N being getTimeUntilReset() rounded up to whole seconds.
C26_RateLimitedMiss ==
  [][\A c \in Calls :
       (Looks(c) /\ ~Live(req'[c].key) /\ Exhausted) =>
         LET wait == getTimeUntilReset(calls, windowMs, now)
             secs == CHOOSE n \in 0..wait :
                       n * SecondMs >= wait /\ (n - 1) * SecondMs < wait IN
         /\ req'[c].pc = "done"
         /\ req'[c].via = "limit"
         /\ req'[c].ret = ApiError("Rate limit exceeded. Please wait "
                                     \o ToString(secs) \o " seconds.")
         /\ calls' = calls
         /\ cachedCalls' = cachedCalls
         /\ \A n \in 1..Len(cache') :
              /\ MapHas(cache, cache'[n].key)
              /\ MapGet(cache, cache'[n].key) = cache'[n].val]_vars

\* a call has been refused with a wait that is not a whole number of
\* seconds, while the cache holds the result of an earlier call
C26_Witness ==
  \E c \in Calls :
    /\ req[c].pc = "done" /\ req[c].via = "limit"
    /\ getTimeUntilReset(calls, windowMs, now) = 1
    /\ req[c].ret.error = "Rate limit exceeded. Please wait 1 seconds."
    /\ Len(cache) > 0

\* the events invocation i itself emitted for its jobId, in order
OwnEvents(i) == SelectSeq(events[jobId[i]], LAMBDA e : e.by = i)

\* no other invocation has been started with the jobId of invocation i
SoleUser(i) == \A k \in Inv \ {i} : pc[k] = "idle" \/ jobId[k] # jobId[i]

IsComplete(e) == e.stage = "complete" /\ e.progress = 100

\* C31: when the remote call won the race with a successful result and no
\* cancelJob has cancelled the job, the job's promise resolves with the
\* successful result and the last event the job emitted is 'complete' with
\* progress 100, which is the last event of the jobId when no other call
\* uses that jobId; a job that emitted 'complete' never settles with
\* anything but success.
C31_SuccessCompletes ==
  /\ \A i \in Inv :
       (remote[i] = "ok" /\ i \notin cancelled) =>
         /\ ProcessResult(i) \in {Pending, Success}
         /\ pc[i] = "done" => result[i] = Success
         /\ OwnEvents(i) # <<>>
         /\ IsComplete(OwnEvents(i)[Len(OwnEvents(i))])
         /\ SoleUser(i) => IsComplete(events[jobId[i]][Len(events[jobId[i]])])
  /\ \A i \in Inv :
       Emitted(i, {"complete"}) => ProcessResult(i) \in {Pending, Success}

\* a job has resolved with success and 'complete' as the last event of its
\* jobId, after timer events, while the job of the other jobId was cancelled
C31_Witness ==
  \E i, k \in Inv :
    /\ pc[i] = "done" /\ remote[i] = "ok" /\ i \notin cancelled
    /\ result[i] = Success /\ ticks[i] > 0
    /\ IsComplete(events[jobId[i]][Len(events[jobId[i]])])
    /\ k \in cancelled /\ jobId[k] # jobId[i]

\* the remote call of invocation i settles in this step, after the abort
\* won the race
SettlesLate(i) ==
  pc[i] # "race" /\ remote[i] = "pending" /\ remote'[i] # "pending"

\* C32: once the cancellation has won the race of a job, the settlement of
\* the job's remote call emits no event, settles or changes no result and
\* leaves the registry as it is; the job, whether the call has settled or
\* not, resolves with the abort failure only and never emits 'complete'.
C32_LateResultDiscarded ==
  /\ [][\A i \in Inv : SettlesLate(i) =>
          /\ events' = events
          /\ result' = result /\ blobRet' = blobRet
          /\ currentJobs' = currentJobs
          /\ pc' = pc]_vars
  /\ [](\A i \in Inv :
          (remote[i] = "settled" \/ (remote[i] = "pending" /\ pc[i] # "race")) =>
            /\ ProcessResult(i) \in {Pending, Failure(AbortMsg)}
            /\ ~Emitted(i, {"complete"}))

\* a cancelled job has resolved with the abort failure, its remote call has
\* settled, and its jobId is not registered
C32_Witness ==
  \E i \in Inv :
    /\ i \in cancelled /\ remote[i] = "settled" /\ pc[i] = "done"
    /\ result[i] = Failure(AbortMsg)
    /\ ~Registered(jobId[i])

\* C33: a progress timer runs only while its job awaits the race: it is
\* stopped in the step that settles the race (success, failure or
\* cancellation), a timer callback runs only for a job whose race is
\* unsettled, and a timer is stopped by the settlement of its own job only.
C33_TimersDoNotLeak ==
  /\ [](\A i \in Inv : timerOn[i] => (pc[i] = "race" /\ remote[i] = "pending"))
  /\ [][\A i \in Inv :
          /\ ticks'[i] # ticks[i] => (pc[i] = "race" /\ pc'[i] = "race")
          /\ (pc[i] = "race" /\ pc'[i] # "race") => ~timerOn'[i]
          /\ (timerOn[i] /\ ~timerOn'[i]) => (pc[i] = "race" /\ pc'[i] # "race")
          /\ (pc[i] = "race" /\ pc'[i] = "race") => timerOn'[i]]_vars

\* the timer of a cancelled job is stopped while the timer of the other,
\* overlapping job, which has run a callback, is still on
C33_Witness ==
  \E i, k \in Inv :
    /\ i \in cancelled /\ ~timerOn[i] /\ remote[i] = "pending"
    /\ timerOn[k] /\ ticks[k] > 0 /\ pc[k] = "race"

\* invocations i and k are two started jobs with distinct jobIds
TwoJobs(i, k) ==
  /\ i # k
  /\ pc[i] # "idle" /\ pc[k] # "idle"
  /\ jobId[i] # jobId[k]

\* a step of job i: a continuation of it, a callback of its timer, the
\* settlement of its remote call, or a cancelJob for its jobId
StepOf(i) ==
  \/ FileSteps(i)
  \/ \E inc \in TickIncs : TimerTick(i, inc)
  \/ \E out \in Outcomes : LateSettle(i, out)
  \/ cancelJob(jobId[i])

\* C38: with two jobs under distinct jobIds, no step of one job (its
\* continuations up to completion or failure, its timer, a cancelJob for
\* its jobId) changes the registration of the other job, its cancellation
\* token, its position, its timer, its result or the events of its jobId.
C38_JobsIndependent ==
  [][\A i, k \in Inv :
       (TwoJobs(i, k) /\ StepOf(i)) =>
         /\ MapHas(currentJobs', jobId[k]) <=> MapHas(currentJobs, jobId[k])
         /\ aborted'[k] = aborted[k]
         /\ pc'[k] = pc[k]
         /\ timerOn'[k] = timerOn[k]
         /\ result'[k] = result[k]
         /\ events'[jobId[k]] = events[jobId[k]]]_vars

\* one job was cancelled and has resolved with the abort failure while the
\* job of the other jobId, started before the cancellation, went on to
\* resolve with success
C38_Witness ==
  \E i, k \in Inv :
    /\ jobId[i] # jobId[k]
    /\ i \in cancelled /\ pc[i] = "done" /\ result[i] = Failure(AbortMsg)
    /\ k \notin cancelled /\ pc[k] = "done" /\ result[k] = Success
    /\ ~aborted[k]

\* C34: for an invocation whose jobId no other call uses, a terminal event
\* ('complete' or 'error') of the jobId is the last event of the jobId: at
\* most one terminal event is emitted and no event follows it, whatever
\* cancelJob and cleanup() do meanwhile.
C34_TerminalIsFinal ==
  \A i \in Inv :
    (pc[i] # "idle" /\ SoleUser(i)) =>
      \A n \in 1..Len(events[jobId[i]]) :
        Terminal(events[jobId[i]][n].stage) => n = Len(events[jobId[i]])

\* entry k is stored but has expired and has not been removed yet
Stale(k) == MapHas(cache, k) /\ Expired(MapGet(cache, k), now)

\* C35: set(k, v) on a key whose stored entry has expired but has not been
\* removed yet behaves like the insert of a new key: the resulting entry
\* has accessCount = 1.
C35_SetOnExpiredIsInsert ==
  [][\A k \in CKeys :
       (cacheOp'.op = "set" /\ cacheOp'.key = k /\ Stale(k)) =>
         MapGet(cache', k).accessCount = 1]_vars

\* C36: when set makes room for a new key at capacity while the cache holds
\* an expired entry that has not been swept, no live entry is removed.
C36_EvictionSparesLive ==
  [][\A k \in CKeys :
       (/\ cacheOp'.op = "set" /\ cacheOp'.key = k
        /\ ~MapHas(cache, k) /\ Len(cache) >= maxSize
        /\ \E x \in MapKeys(cache) : Stale(x))
         => \A y \in MapKeys(cache) : ~MapHas(cache', y) => Stale(y)]_vars

\* call c resolves in this step with {success: false}
Fails(c) == req[c].pc # "done" /\ req'[c].pc = "done" /\ ~req'[c].ret.success

\* C37 (as stated): when a transcribe or format call ends in failure, the
\* cache holds no entry for that call's key.
C37_NoEntryAfterFailure ==
  [][\A c \in Calls :
       (Fails(c) /\ req'[c].key # "") => ~MapHas(cache', req'[c].key)]_vars

\* C37 (amended): a call that ends in failure stores nothing and changes no
\* stored data, every stored entry holds the result of a successful remote
\* call made for its key, and a call answered from the cache succeeds.
C37_OnlySuccessCached ==
  /\ [][\A c \in Calls : Fails(c) =>
          \A k \in MapKeys(cache') :
            /\ MapHas(cache, k)
            /\ MapGet(cache', k).data = MapGet(cache, k).data]_vars
  /\ [](\A n \in 1..Len(cache) : \E r \in cachedCalls :
          /\ r.key = cache[n].key
          /\ cache[n].val.data = Answer(r.kind, r.opts))
  /\ [](\A c \in Calls :
          (req[c].pc = "done" /\ req[c].via = "cache") => req[c].ret.success)

\* a call has failed upstream, nothing is stored, and an identical call is
\* on its way to the remote end
C37_Witness ==
  \E c, d \in Calls :
    /\ req[c].pc = "done" /\ req[c].via = "remote"
    /\ req[c].ret = ApiError(UpstreamMsg)
    /\ cache = <<>>
    /\ req[d].pc = "post" /\ req[d].key = req[c].key
====
